---------------------------- MODULE Spec2Model ----------------------------
(***************************************************************************)
(* Model of the export pipeline of the screen-recording editor:            *)
(*   - the segment planner (VideoExporter.computeContinuousSegments and    *)
(*     getEffectiveDuration), as pure operators over trim lists;           *)
(*   - VideoExporter.export() as a cooperative state machine: the export   *)
(*     coroutine, the per-segment frame callbacks and interval timers, the *)
(*     encoder output callback, cancel() and cleanup().                    *)
(* Times are integers in milliseconds.  One action is one task of the      *)
(* event loop: a handler runs from the event that wakes it to its next     *)
(* await, together with the promise continuations it makes runnable.       *)
(***************************************************************************)
EXTENDS Integers, Sequences, FiniteSets, TLC

(***************************************************************************)
(* Bounds of the planner inputs.                                           *)
(***************************************************************************)
MaxMs == 4
MaxTrims == 3

(***************************************************************************)
(* Bounds of the pipeline model.  MAX_ENCODE_QUEUE (200 in the source) and *)
(* the wait budget (50 polls in the source) are scaled down; the frame     *)
(* interval is 1000 / config.frameRate; StepMs is the media-time distance  *)
(* between two presented frames.                                           *)
(***************************************************************************)
MAX_ENCODE_QUEUE == 1
MaxWaitPolls == 2
FrameIntervalMs == 100
StepMs == 80
MaxSegments == 2
\* the keyframe period (60 frames in the source, line 532), scaled down
KeyFrameInterval == 2
\* the capture errors (a rejected renderFrame, a throwing encode) injected
\* into one segment
MaxFrameErrors == 1

(***************************************************************************)
(* Bounds of the zoom resolver model.  Region bounds are whole             *)
(* milliseconds in 0..MaxZoomMs (the editor rounds them); the transition   *)
(* window (constants.ts, hundreds of milliseconds) is scaled down; a       *)
(* strength is a multiple of 1 / StrengthOne.                              *)
(***************************************************************************)
MaxZoomMs == 2
MaxZoomRegions == 2
TRANSITION_WINDOW_MS == 2
StrengthOne == 2

(***************************************************************************)
(* Bounds of the editor model: the handlers called in one session, the     *)
(* regions one smart zoom analysis generates, and the spans handed to the  *)
(* handlers.                                                               *)
(***************************************************************************)
MaxOps == 4
MaxSmartZooms == 1
MaxSpanStart == 1

(***************************************************************************)
(* Bounds of the recorder model: the clock, in milliseconds, and the       *)
(* chunks kept.                                                            *)
(***************************************************************************)
MaxClock == 4
MaxChunks == 1

(***************************************************************************)
(* Program constants.                                                      *)
(***************************************************************************)
EndToleranceMs == 50
StuckEpsilonMs == 10
StuckLimit == 3
InactivityMs == 1000
TimeoutPollMs == 300
ProgressEvery == 3

VARIABLES
    \* configuration and planning
    totalDurationMs,    \* videoInfo.duration * 1000
    trimRegions,        \* config.trimRegions, in the caller's order
    segments,           \* const segments (export, line 321)
    effectiveDurationMs,\* const effectiveDuration (export, line 313), in ms
    planned,            \* lines 313-321 of export() have run
    \* the export() coroutine
    pc,                 \* the await export() is suspended at
    segIdx,             \* index of the segment the for loop is at
    globalFrameIndex,   \* let globalFrameIndex (export, line 326)
    result,             \* the ExportResult returned
    barrierSnapshot,    \* number of promises Promise.all was called with
    \* fields of the exporter
    cancelled,          \* this.cancelled
    encodeQueue,        \* this.encodeQueue
    encoderRef,         \* this.encoder !== null
    decoder,            \* "none" | "live" | "destroyed"; this.decoder !== null iff live
    renderer,           \* "none" | "live" | "destroyed"; this.renderer !== null iff live
    muxerRef,           \* this.muxer !== null
    chunkCount,         \* this.chunkCount
    videoDescription,   \* this.videoDescription: 0 is undefined, n the description
                        \* the n-th output's metadata carried
    videoColorSpace,    \* this.videoColorSpace: "undefined" or a colour space
    descriptionLocal,   \* let videoDescription of initializeEncoder (line 588), as above
    \* platform objects
    encoderState,       \* "none" | "unconfigured" | "configured" | "closed"
    inFlight,           \* frames given to encode() whose output has not been emitted
    flushPending,       \* outputs the pending flush() still waits for
    muxed,              \* frames whose chunk was handed to addVideoChunk, in order
    muxUnsettled,       \* indexes (in muxed) of the mux promises not yet settled
    finalizeInvoked,    \* muxer.finalize() has been called
    videoTime,          \* videoElement.currentTime * 1000
    playing,            \* !videoElement.paused
    playbackRate,       \* videoElement.playbackRate
    newFrame,           \* a frame was presented since the last frame callback
    endedPending,       \* the media reached its end, 'ended' not yet dispatched
    \* per-segment closures of extractFramesWithPlayback
    cl,
    \* history
    submitted,          \* global frame indexes passed to encoder.encode, in order
    cancelCalled,       \* cancel() was called while export() was running
    cancelAt,           \* the await export() was at when cancel() was called
    keyFrames,          \* the keyFrame option of each encode call, in order
    emitted,            \* the chunks the output callback was called with, in order
    descriptionCaptures,\* number of times the description was captured
    firstChunkConfig,   \* the metadata addVideoChunk got with the first chunk
    lastProgress,       \* the ExportProgress config.onProgress was last called with
    \* the zoom region resolver (zoomRegionUtils.ts)
    zoomRegions,        \* the ZoomRegion[] given to findDominantRegion
    smoothStepTable,    \* smoothStep on the interior points k / TRANSITION_WINDOW_MS
    timeMs,             \* the timeMs findDominantRegion was last called with
    dominant,           \* what findDominantRegion returned; region is the index of
                        \* the region object in zoomRegions, 0 for null
    \* the editor component (VideoEditor.tsx): its region collections, the
    \* selections, the id counters, the number of uuids drawn, and the number
    \* of handler calls made
    editor,
    \* the recorder hook (useScreenRecorder.ts): its refs, the MediaRecorder's
    \* state, the clock, and the duration handed to fixWebmDuration
    recorder

cfgVars  == <<totalDurationMs, trimRegions>>
planVars == <<segments, effectiveDurationMs, planned>>
ctlVars  == <<pc, segIdx, globalFrameIndex, result, barrierSnapshot>>
resVars  == <<encodeQueue, encoderRef, decoder, renderer, muxerRef, encoderState, inFlight,
              flushPending, chunkCount, videoDescription, videoColorSpace,
              descriptionLocal>>
muxVars  == <<muxed, muxUnsettled>>
vidVars  == <<videoTime, playing, playbackRate, newFrame, endedPending>>
histVars == <<submitted, cancelCalled, cancelAt, keyFrames, emitted,
              descriptionCaptures, firstChunkConfig, lastProgress>>

zoomVars == <<zoomRegions, smoothStepTable, timeMs, dominant>>
\* the state outside the exporter
uiVars   == <<zoomVars, editor, recorder>>

vars == <<uiVars, cfgVars, planVars, ctlVars, cancelled, resVars, muxVars, finalizeInvoked,
          vidVars, cl, histVars>>

(***************************************************************************)
(* Segment planner                                                         *)
(***************************************************************************)
TrimRegion(s, e) == [startMs |-> s, endMs |-> e]

\* every TrimRegion has startMs < endMs (data model)
TrimsOver(lo, hi) ==
    {r \in [startMs : lo..hi, endMs : lo..hi] : r.startMs < r.endMs}

SeqsUpTo(S, n) == UNION {[1..k -> S] : k \in 0..n}

\* [...trimRegions].sort((a, b) => a.startMs - b.startMs): a stable sort
RECURSIVE InsertByStart(_, _)
InsertByStart(sorted, x) ==
    IF sorted = <<>> THEN <<x>>
    ELSE IF Head(sorted).startMs <= x.startMs
         THEN <<Head(sorted)>> \o InsertByStart(Tail(sorted), x)
         ELSE <<x>> \o sorted

RECURSIVE sortedTrims(_)
sortedTrims(trims) ==
    IF trims = <<>> THEN <<>>
    ELSE InsertByStart(sortedTrims(SubSeq(trims, 1, Len(trims) - 1)), trims[Len(trims)])

ContinuousSegment(srcStart, srcEnd, effStart) ==
    [sourceStartMs |-> srcStart,
     sourceEndMs |-> srcEnd,
     effectiveStartMs |-> effStart,
     effectiveEndMs |-> effStart + (srcEnd - srcStart)]

\* mutant of AdvanceCursor: the cursor is left where it was
AdvanceCursorStuck(currentSourceMs, trim) == currentSourceMs

\* currentSourceMs = trim.endMs (line 244)
AdvanceCursor(currentSourceMs, trim) == trim.endMs

\* mutant of EmitsSegment: a segment is emitted for every trim
EmitsSegmentAlways(currentSourceMs, trim) == TRUE

\* if (trim.startMs > currentSourceMs) (line 234)
EmitsSegment(currentSourceMs, trim) == trim.startMs > currentSourceMs

\* the for loop over sortedTrims (lines 233-245); returns the loop's final locals
RECURSIVE WalkTrims(_, _, _, _)
WalkTrims(sorted, currentSourceMs, currentEffectiveMs, segs) ==
    IF sorted = <<>>
    THEN [currentSourceMs |-> currentSourceMs,
          currentEffectiveMs |-> currentEffectiveMs,
          segments |-> segs]
    ELSE LET trim == Head(sorted)
             emit == EmitsSegment(currentSourceMs, trim)
             seg  == ContinuousSegment(currentSourceMs, trim.startMs, currentEffectiveMs)
         IN WalkTrims(Tail(sorted),
                      AdvanceCursor(currentSourceMs, trim),
                      IF emit THEN seg.effectiveEndMs ELSE currentEffectiveMs,
                      IF emit THEN Append(segs, seg) ELSE segs)

computeContinuousSegments(totalMs, trims) ==
    LET w == WalkTrims(sortedTrims(trims), 0, 0, <<>>)
    IN IF w.currentSourceMs < totalMs
       THEN Append(w.segments,
                   ContinuousSegment(w.currentSourceMs, totalMs, w.currentEffectiveMs))
       ELSE w.segments

RECURSIVE SumTrimDuration(_)
SumTrimDuration(trims) ==
    IF trims = <<>> THEN 0
    ELSE (Head(trims).endMs - Head(trims).startMs) + SumTrimDuration(Tail(trims))

\* totalDuration - sum of (endMs - startMs) over the trims, as given
getEffectiveDuration(totalMs, trims) == totalMs - SumTrimDuration(trims)

RECURSIVE SumEffective(_)
SumEffective(segs) ==
    IF segs = <<>> THEN 0
    ELSE (Head(segs).effectiveEndMs - Head(segs).effectiveStartMs) + SumEffective(Tail(segs))

(***************************************************************************)
(* Export pipeline: helpers                                                *)
(***************************************************************************)
SegIds == 1..MaxSegments

Min(a, b) == IF a < b THEN a ELSE b
Abs(a) == IF a < 0 THEN -a ELSE a
CeilDiv(a, b) == IF a <= 0 THEN 0 ELSE ((a + b - 1) \div b)

\* the exports the pipeline is run on: no trim (one segment) and one trim
\* in the middle (two segments)
ExportConfigs ==
    { [totalDurationMs |-> 220, trimRegions |-> <<>>],
      [totalDurationMs |-> 240, trimRegions |-> <<TrimRegion(80, 160)>>] }

NoResult == [success |-> FALSE, blob |-> FALSE, cancelled |-> FALSE, error |-> "none"]
\* return { success: true, blob } (line 370)
Success == [success |-> TRUE, blob |-> TRUE, cancelled |-> FALSE, error |-> ""]
\* return { success: false, error } (lines 356 and 373-376)
Failure(msg) == [success |-> FALSE, blob |-> FALSE, cancelled |-> FALSE, error |-> msg]

\* the locals of one call of extractFramesWithPlayback before the call.  Beside
\* the locals of the source a closure records: cb, where its frame callback is
\* (cbTimeMs and waitCount are the callback's currentTimeMs and waitCount);
\* callbacksRequested, the frame callbacks registered and not yet run;
\* openFrames, the VideoFrames constructed and not closed; frameErrors, the
\* times the catch of line 555 ran; resolveCount, the calls of resolve.
Unstarted ==
    [started |-> FALSE, framesProcessed |-> 0, globalFrameIndex |-> 0,
     lastCapturedTimeMs |-> 0, isFinished |-> FALSE,
     timeoutCheckId |-> FALSE, progressCheckId |-> FALSE,
     lastProgressTime |-> 0, stuckCount |-> 0, idleMs |-> 0,
     endedListener |-> FALSE, playPending |-> FALSE,
     cb |-> "none", cbTimeMs |-> 0, waitCount |-> 0,
     callbacksRequested |-> 0, openFrames |-> 0, frameErrors |-> 0, resolveCount |-> 0]

\* lines 405-419, 441, 450, 475, 571-577: the locals after the synchronous part
Started(seg, startGlobalFrameIndex) ==
    [started |-> TRUE, framesProcessed |-> 0, globalFrameIndex |-> startGlobalFrameIndex,
     lastCapturedTimeMs |-> seg.sourceStartMs - FrameIntervalMs, isFinished |-> FALSE,
     timeoutCheckId |-> TRUE, progressCheckId |-> TRUE,
     lastProgressTime |-> 0, stuckCount |-> 0, idleMs |-> 0,
     endedListener |-> TRUE, playPending |-> TRUE,
     cb |-> "requested", cbTimeMs |-> 0, waitCount |-> 0,
     callbacksRequested |-> 1, openFrames |-> 0, frameErrors |-> 0, resolveCount |-> 0]

\* Math.ceil((effectiveEndMs - effectiveStartMs) / frameIntervalMs) (line 334)
SegmentFrames(seg) == CeilDiv(seg.effectiveEndMs - seg.effectiveStartMs, FrameIntervalMs)

\* timeSinceLastCapture >= frameIntervalMs * 0.7 (line 497)
CaptureDue(timeSinceLastCapture) == timeSinceLastCapture * 10 >= FrameIntervalMs * 7

\* mutant of QueueFull: the gate lets one frame too many through
QueueFullOffByOne(queue) == queue > MAX_ENCODE_QUEUE

\* this.encodeQueue >= this.MAX_ENCODE_QUEUE (line 521)
QueueFull(queue) == queue >= MAX_ENCODE_QUEUE

\* this.encoder && this.encoder.state === 'configured' (lines 360, 530, 681-683)
EncoderConfigured == encoderRef /\ encoderState = "configured"

\* cleanup() (lines 680-716); close() discards the encoder's pending work
Cleanup ==
    /\ encoderState' = IF EncoderConfigured THEN "closed" ELSE encoderState
    /\ inFlight' = IF EncoderConfigured THEN <<>> ELSE inFlight
    /\ flushPending' = IF EncoderConfigured THEN 0 ELSE flushPending
    /\ encoderRef' = FALSE
    /\ decoder' = IF decoder = "live" THEN "destroyed" ELSE decoder
    /\ renderer' = IF renderer = "live" THEN "destroyed" ELSE renderer
    /\ muxerRef' = FALSE
    /\ encodeQueue' = 0
    /\ chunkCount' = 0
    /\ videoDescription' = 0
    /\ videoColorSpace' = "undefined"
    /\ UNCHANGED descriptionLocal

\* export() returns r: the return or catch value, then finally { cleanup() }
Return(r) ==
    /\ pc' = "returned"
    /\ result' = r
    /\ Cleanup

\* export() suspends at the await p
Await(p) ==
    /\ pc' = p
    /\ UNCHANGED <<result, resVars>>

\* const blob = await this.muxer!.finalize() (line 365)
FinalizeCall ==
    IF muxerRef
    THEN Await("finalizing") /\ finalizeInvoked' = TRUE
    ELSE Return(Failure("TypeError")) /\ UNCHANGED finalizeInvoked

\* await Promise.all(this.muxingPromises) (line 364): nothing pending resolves
\* in the same task
BarrierEnter ==
    /\ barrierSnapshot' = Len(muxed)
    /\ IF muxUnsettled = {}
       THEN FinalizeCall
       ELSE Await("muxBarrier") /\ UNCHANGED finalizeInvoked

\* lines 355-364, after the for loop
AfterLoop ==
    IF cancelled
    THEN Return(Failure("Export cancelled")) /\ UNCHANGED <<finalizeInvoked, barrierSnapshot>>
    ELSE IF EncoderConfigured
         THEN /\ pc' = "flushing"
              /\ flushPending' = Len(inFlight)
              /\ UNCHANGED <<result, encodeQueue, encoderRef, decoder, renderer, muxerRef,
                             encoderState, inFlight, chunkCount, videoDescription,
                             videoColorSpace, descriptionLocal>>
              /\ UNCHANGED <<finalizeInvoked, barrierSnapshot>>
         ELSE BarrierEnter

\* the head of the for loop at segment i with globalFrameIndex g (lines 331-338)
LoopHead(i, g, segs) ==
    /\ segIdx' = i
    /\ globalFrameIndex' = g
    /\ IF i <= Len(segs) /\ ~cancelled
       THEN /\ Await("seeking")
            /\ videoTime' = segs[i].sourceStartMs
            /\ UNCHANGED <<finalizeInvoked, barrierSnapshot>>
       ELSE AfterLoop /\ UNCHANGED videoTime

\* mutant of Finished: the progress watcher is left running
FinishedLeavesWatcher(c) ==
    [c EXCEPT !.isFinished = TRUE, !.timeoutCheckId = FALSE, !.endedListener = FALSE,
              !.idleMs = 0,
              !.cb = IF c.cb = "requested" THEN "none" ELSE c.cb,
              !.callbacksRequested = 0,
              !.resolveCount = c.resolveCount + 1]

\* what finish() leaves of the closure c (lines 423-435).  A frame callback
\* still registered runs lines 478-481 later and does nothing; the locals only
\* the cleared timers read (lastActivityTime, lastProgressTime, stuckCount)
\* are dead and are reset.
Finished(c) ==
    [c EXCEPT !.isFinished = TRUE, !.timeoutCheckId = FALSE, !.progressCheckId = FALSE,
              !.endedListener = FALSE,
              !.idleMs = 0, !.stuckCount = 0, !.lastProgressTime = 0,
              !.cb = IF c.cb = "requested" THEN "none" ELSE c.cb,
              !.callbacksRequested = 0,
              !.resolveCount = c.resolveCount + 1]

\* finish() of segment s called with the closure at c (lines 421-438), and the
\* continuation of export() the resolve makes runnable (line 352, loop head)
Finish(s, c) ==
    IF c.isFinished
    THEN /\ cl' = [cl EXCEPT ![s] = c]
         /\ UNCHANGED <<ctlVars, resVars, finalizeInvoked, videoTime, playing, playbackRate>>
    ELSE /\ cl' = [cl EXCEPT ![s] = Finished(c)]
         /\ playing' = FALSE
         /\ playbackRate' = 1
         /\ LoopHead(segIdx + 1, globalFrameIndex + c.framesProcessed, segments)

\* the variables finish() and the continuation of export() leave alone
FinishFrame == UNCHANGED <<uiVars, cfgVars, planVars, cancelled, muxVars, histVars>>

\* lines 313-321
PlanLines ==
    /\ effectiveDurationMs' = getEffectiveDuration(totalDurationMs, trimRegions)
    /\ segments' = computeContinuousSegments(totalDurationMs, trimRegions)
    /\ planned' = TRUE

(***************************************************************************)
(* export(): one action per await                                          *)
(***************************************************************************)
\* lines 269-275: cleanup() of a fresh exporter, new decoder, loadVideo
Start ==
    /\ pc = "idle"
    /\ pc' = "loadVideo"
    /\ cancelled' = FALSE
    /\ decoder' = "live"
    /\ UNCHANGED <<uiVars, cfgVars, planVars, segIdx, globalFrameIndex, result, barrierSnapshot,
                   encodeQueue, encoderRef, renderer, muxerRef, encoderState, inFlight,
                   flushPending, chunkCount, videoDescription, videoColorSpace,
                   descriptionLocal, muxVars, finalizeInvoked, vidVars, cl, histVars>>

\* loadVideo settles (lines 275-296)
LoadVideoSettled(ok) ==
    /\ pc = "loadVideo"
    /\ IF ok
       THEN /\ pc' = "rendererInit"
            /\ renderer' = "live"
            /\ UNCHANGED <<result, encodeQueue, encoderRef, decoder, muxerRef,
                           encoderState, inFlight, flushPending, chunkCount,
                           videoDescription, videoColorSpace, descriptionLocal>>
       ELSE Return(Failure("load failed"))
    /\ UNCHANGED <<uiVars, cfgVars, planVars, segIdx, globalFrameIndex, barrierSnapshot, cancelled,
                   muxVars, finalizeInvoked, vidVars, cl, histVars>>

\* renderer.initialize() settles; initializeEncoder up to its first await
\* (lines 296-299, 585-657)
RendererInitSettled(ok) ==
    /\ pc = "rendererInit"
    /\ IF ok
       THEN /\ pc' = "probeHardware"
            /\ encodeQueue' = 0
            /\ encoderRef' = TRUE
            /\ encoderState' = "unconfigured"
            /\ chunkCount' = 0
            /\ descriptionLocal' = 0
            /\ UNCHANGED <<result, decoder, renderer, muxerRef, inFlight, flushPending,
                           videoDescription, videoColorSpace>>
       ELSE Return(Failure("renderer failed"))
    /\ UNCHANGED <<uiVars, cfgVars, planVars, segIdx, globalFrameIndex, barrierSnapshot, cancelled,
                   muxVars, finalizeInvoked, vidVars, cl, histVars>>

\* this.encoder.configure(encoderConfig), then lines 302-303
Configure ==
    IF encoderRef
    THEN /\ pc' = "muxerInit"
         /\ encoderState' = "configured"
         /\ muxerRef' = TRUE
         /\ UNCHANGED <<result, encodeQueue, encoderRef, decoder, renderer, inFlight,
                        flushPending, chunkCount, videoDescription, videoColorSpace,
                        descriptionLocal>>
    ELSE Return(Failure("TypeError"))

\* VideoEncoder.isConfigSupported settles for prefer-hardware (lines 657-666)
ProbeHardware(supported) ==
    /\ pc = "probeHardware"
    /\ IF supported THEN Configure ELSE Await("probeSoftware")
    /\ UNCHANGED <<uiVars, cfgVars, planVars, segIdx, globalFrameIndex, barrierSnapshot, cancelled,
                   muxVars, finalizeInvoked, vidVars, cl, histVars>>

\* VideoEncoder.isConfigSupported settles for prefer-software (lines 666-672)
ProbeSoftware(supported) ==
    /\ pc = "probeSoftware"
    /\ IF supported THEN Configure ELSE Return(Failure("Video encoding not supported"))
    /\ UNCHANGED <<uiVars, cfgVars, planVars, segIdx, globalFrameIndex, barrierSnapshot, cancelled,
                   muxVars, finalizeInvoked, vidVars, cl, histVars>>

\* muxer.initialize() settles; lines 303-338 up to the first seek
MuxerInitSettled(ok, hasVideoElement) ==
    /\ pc = "muxerInit"
    /\ IF ~ok \/ decoder # "live" \/ ~hasVideoElement
       THEN /\ Return(Failure(IF ~ok THEN "muxer failed"
                              ELSE IF decoder # "live" THEN "TypeError"
                              ELSE "Video element not available"))
            /\ UNCHANGED <<planVars, segIdx, globalFrameIndex, barrierSnapshot,
                           finalizeInvoked, videoTime>>
       ELSE /\ PlanLines
            /\ LoopHead(1, 0, segments')
    /\ UNCHANGED <<uiVars, cfgVars, cancelled, muxVars, playing, playbackRate, newFrame,
                   endedPending, cl, histVars>>

\* 'seeked' fires (lines 384-386); extractFramesWithPlayback up to play()
\* (lines 404-581)
Seeked ==
    /\ pc = "seeking"
    /\ segIdx \in SegIds
    /\ pc' = "extracting"
    /\ cl' = [cl EXCEPT ![segIdx] = Started(segments[segIdx], globalFrameIndex)]
    /\ playbackRate' = 2
    /\ playing' = TRUE
    /\ newFrame' = TRUE
    /\ endedPending' = FALSE
    /\ UNCHANGED <<uiVars, cfgVars, planVars, segIdx, globalFrameIndex, result, barrierSnapshot,
                   cancelled, resVars, muxVars, finalizeInvoked, videoTime, histVars>>

\* encoder.flush() settles (lines 360-364): it resolves once the output of
\* every frame encoded before the call has been emitted and rejects when the
\* encoder was closed meanwhile
FlushSettled ==
    /\ pc = "flushing"
    /\ \/ /\ encoderState = "configured"
          /\ flushPending = 0
          /\ BarrierEnter
       \/ /\ encoderState = "closed"
          /\ Return(Failure("flush aborted"))
          /\ UNCHANGED <<finalizeInvoked, barrierSnapshot>>
    /\ UNCHANGED <<uiVars, cfgVars, planVars, segIdx, globalFrameIndex, cancelled, muxVars,
                   vidVars, cl, histVars>>

\* the last of the promises passed to Promise.all settles (lines 364-365)
BarrierSettled ==
    /\ pc = "muxBarrier"
    /\ muxUnsettled \cap (1..barrierSnapshot) = {}
    /\ FinalizeCall
    /\ UNCHANGED <<uiVars, cfgVars, planVars, segIdx, globalFrameIndex, barrierSnapshot, cancelled,
                   muxVars, vidVars, cl, histVars>>

\* muxer.finalize() settles (lines 365-379)
FinalizeSettled(ok) ==
    /\ pc = "finalizing"
    /\ Return(IF ok THEN Success ELSE Failure("finalize failed"))
    /\ UNCHANGED <<uiVars, cfgVars, planVars, segIdx, globalFrameIndex, barrierSnapshot, cancelled,
                   muxVars, finalizeInvoked, vidVars, cl, histVars>>

\* cancel() while export() is running (lines 675-678)
Cancel ==
    /\ pc \notin {"idle", "returned"}
    /\ ~cancelCalled
    /\ cancelled' = TRUE
    /\ Cleanup
    /\ cancelCalled' = TRUE
    /\ cancelAt' = pc
    /\ UNCHANGED <<uiVars, cfgVars, planVars, ctlVars, muxVars, finalizeInvoked, vidVars, cl,
                   submitted, keyFrames, emitted, descriptionCaptures, firstChunkConfig,
                   lastProgress>>

(***************************************************************************)
(* Encoder and muxer callbacks                                             *)
(***************************************************************************)
\* the encoder's error callback (lines 636-639); the platform closes an
\* encoder before it reports an error
EncoderError ==
    /\ encoderState = "configured"
    /\ encoderState' = "closed"
    /\ inFlight' = <<>>
    /\ flushPending' = 0
    /\ cancelled' = TRUE
    /\ UNCHANGED <<uiVars, cfgVars, planVars, ctlVars, encodeQueue, encoderRef, decoder, renderer,
                   muxerRef, chunkCount, videoDescription, videoColorSpace,
                   descriptionLocal, muxVars, finalizeInvoked, vidVars, cl, histVars>>

\* no chunk has been handed to the muxer yet
NoMetadata == [description |-> 0, colorSpace |-> "none"]

\* the metadata the platform passes with an output: description n stands for
\* the description bytes of the n-th output, 0 for none
PlatformMeta(n, hasDescription, hasColorSpace) ==
    [description |-> IF hasDescription THEN n ELSE 0,
     colorSpace |-> IF hasColorSpace THEN "platform" ELSE "undefined"]

\* mutant of CapturesDescription: the description is captured from every
\* output that carries one
CapturesDescriptionAlways(meta, local) == meta.description # 0

\* meta?.decoderConfig?.description && !videoDescription (line 592)
CapturesDescription(meta, local) == meta.description # 0 /\ local = 0

\* the metadata addVideoChunk is called with (lines 606-627), given the fields
\* as lines 592-599 left them
ChunkMetadata(isFirstChunk, description, colorSpace, meta) ==
    IF isFirstChunk /\ description # 0
    THEN [description |-> description,
          colorSpace |-> IF colorSpace # "undefined" THEN colorSpace ELSE "bt709"]
    ELSE meta

\* mutant of HandOver: the chunk is put in front of the chunks handed over
HandOverFirst(chunks, chunk) == <<chunk>> \o chunks

\* this.muxer!.addVideoChunk(chunk, ...) (lines 624, 626): the call is made in
\* the output callback itself, before the async block first suspends
HandOver(chunks, chunk) == Append(chunks, chunk)

\* the encoder's output callback (lines 591-635) for the oldest pending frame;
\* the first output of an encoder carries the decoder configuration with the
\* codec description, later outputs may carry one again; with this.muxer null
\* the async block throws and its promise settles at once
EncoderOutput(hasDescription, hasColorSpace) ==
    /\ encoderState = "configured"
    /\ inFlight # <<>>
    /\ emitted = <<>> => hasDescription
    /\ LET meta == PlatformMeta(Len(emitted) + 1, hasDescription, hasColorSpace)
           capture == CapturesDescription(meta, descriptionLocal)
           description == IF capture THEN meta.description ELSE videoDescription
           colorSpace == IF meta.colorSpace # "undefined" /\ videoColorSpace = "undefined"
                         THEN meta.colorSpace ELSE videoColorSpace
           isFirstChunk == chunkCount = 0
       IN /\ descriptionLocal' = IF capture THEN meta.description ELSE descriptionLocal
          /\ videoDescription' = description
          /\ descriptionCaptures' = IF capture THEN descriptionCaptures + 1
                                    ELSE descriptionCaptures
          /\ videoColorSpace' = colorSpace
          /\ chunkCount' = chunkCount + 1
          /\ IF muxerRef
             THEN /\ muxed' = HandOver(muxed, Head(inFlight))
                  /\ muxUnsettled' = muxUnsettled \cup {Len(muxed) + 1}
                  /\ firstChunkConfig' =
                        IF muxed = <<>>
                        THEN ChunkMetadata(isFirstChunk, description, colorSpace, meta)
                        ELSE firstChunkConfig
             ELSE UNCHANGED <<muxVars, firstChunkConfig>>
    /\ emitted' = Append(emitted, [frame |-> Head(inFlight), handed |-> muxerRef])
    /\ inFlight' = Tail(inFlight)
    /\ flushPending' = IF flushPending > 0 THEN flushPending - 1 ELSE 0
    /\ encodeQueue' = encodeQueue - 1
    /\ UNCHANGED <<uiVars, cfgVars, planVars, ctlVars, cancelled, encoderRef, decoder, renderer,
                   muxerRef, encoderState, finalizeInvoked, vidVars, cl, submitted,
                   cancelCalled, cancelAt, keyFrames, lastProgress>>

\* muxer.addVideoChunk of chunk i settles (lines 624-630)
MuxSettled(i) ==
    /\ i \in muxUnsettled
    /\ muxUnsettled' = muxUnsettled \ {i}
    /\ UNCHANGED <<uiVars, cfgVars, planVars, ctlVars, cancelled, resVars, muxed, finalizeInvoked,
                   vidVars, cl, histVars>>

(***************************************************************************)
(* The video element                                                       *)
(***************************************************************************)
\* playback presents the next frame; at the end of the media it stops and
\* queues 'ended'
VideoAdvance ==
    /\ playing
    /\ videoTime < totalDurationMs
    /\ videoTime' = Min(videoTime + StepMs, totalDurationMs)
    /\ newFrame' = TRUE
    /\ IF videoTime + StepMs >= totalDurationMs
       THEN playing' = FALSE /\ endedPending' = TRUE
       ELSE UNCHANGED <<playing, endedPending>>
    /\ UNCHANGED <<uiVars, cfgVars, planVars, ctlVars, cancelled, resVars, muxVars, finalizeInvoked,
                   playbackRate, cl, histVars>>

\* onEnded of segment s (lines 471-474)
OnEnded(s) ==
    /\ endedPending
    /\ cl[s].endedListener
    /\ endedPending' = FALSE
    /\ Finish(s, cl[s])
    /\ FinishFrame
    /\ UNCHANGED newFrame

\* videoElement.play() of segment s settles (lines 577-580)
PlaySettled(s, ok) ==
    /\ cl[s].playPending
    /\ LET c == [cl[s] EXCEPT !.playPending = FALSE]
       IN IF ok
          THEN /\ cl' = [cl EXCEPT ![s] = c]
               /\ UNCHANGED <<ctlVars, resVars, finalizeInvoked, videoTime, playing,
                              playbackRate>>
          ELSE Finish(s, c)
    /\ FinishFrame
    /\ UNCHANGED <<newFrame, endedPending>>

(***************************************************************************)
(* processFrame of segment s (lines 477-568)                               *)
(***************************************************************************)
\* lines 560-567: the next callback is requested unless the segment finished
Rerequest(c) ==
    [c EXCEPT !.cb = IF c.isFinished THEN "none" ELSE "requested",
              !.callbacksRequested = IF c.isFinished THEN c.callbacksRequested
                                     ELSE c.callbacksRequested + 1,
              !.cbTimeMs = 0, !.waitCount = 0]

\* mutant of CaptureError: the catch leaves processFrame without asking for
\* the next frame
CaptureErrorStops(c) ==
    [c EXCEPT !.frameErrors = c.frameErrors + 1, !.cb = "none",
              !.cbTimeMs = 0, !.waitCount = 0]

\* the catch of line 555, then lines 560-567
CaptureError(c) == Rerequest([c EXCEPT !.frameErrors = c.frameErrors + 1])

\* mutant of EnterCallback: the callback registers its successor on entry
EnterCallbackRerequesting(c) == [c EXCEPT !.cb = "none"]

\* a registered frame callback is run once (lines 563, 572): its registration
\* is used up when processFrame is entered
EnterCallback(c) ==
    [c EXCEPT !.cb = "none", !.callbacksRequested = c.callbacksRequested - 1]

\* keyFrame: globalFrameIndex % 60 === 0 (line 532)
IsKeyFrame(frameIndex) == frameIndex % KeyFrameInterval = 0

\* the frame callback fires: lines 478-503, up to await renderFrame.  The
\* source VideoFrame is constructed at line 502; with this.renderer null line
\* 503 throws before it suspends.
FrameCallback(s) ==
    /\ cl[s].cb = "requested"
    /\ newFrame
    /\ newFrame' = FALSE
    /\ LET c   == EnterCallback(cl[s])
           c1  == [c EXCEPT !.idleMs = 0]
           c2  == [c1 EXCEPT !.openFrames = c1.openFrames + 1]
           seg == segments[s]
           currentTimeMs == videoTime
       IN IF c.isFinished \/ cancelled
          THEN Finish(s, c)
          ELSE IF \/ currentTimeMs >= seg.sourceEndMs - EndToleranceMs
                  \/ c.framesProcessed >= SegmentFrames(seg)
          THEN Finish(s, c1)
          ELSE /\ cl' = [cl EXCEPT ![s] =
                           IF ~CaptureDue(currentTimeMs - c.lastCapturedTimeMs)
                           THEN Rerequest(c1)
                           ELSE IF renderer = "live"
                           THEN [c2 EXCEPT !.cb = "rendering", !.cbTimeMs = currentTimeMs]
                           ELSE CaptureError(c2)]
               /\ UNCHANGED <<ctlVars, resVars, finalizeInvoked, videoTime, playing,
                              playbackRate>>
    /\ FinishFrame
    /\ UNCHANGED endedPending

\* lines 538-540 and 560-567 after the export frame was closed (lines 529,
\* 533, 535)
FrameCounted(c) ==
    Rerequest([c EXCEPT !.openFrames = c.openFrames - 1,
                        !.lastCapturedTimeMs = c.cbTimeMs,
                        !.framesProcessed = c.framesProcessed + 1,
                        !.globalFrameIndex = c.globalFrameIndex + 1])

\* const totalFrames = Math.ceil(effectiveDuration * this.config.frameRate)
\* (line 314), the totalFrames every call of extractFramesWithPlayback gets
totalFrames == CeilDiv(effectiveDurationMs, FrameIntervalMs)

\* config.onProgress has not been called
NoProgress == [currentFrame |-> 0, totalFrames |-> 0, percentage |-> 0]

\* the object handed to config.onProgress (lines 548-553); percentage is
\* rounded down, and 100 times the frame number when totalFrames is 0 (the
\* division's Infinity)
ExportProgress(frame, total) ==
    [currentFrame |-> frame, totalFrames |-> total,
     percentage |-> IF total = 0 THEN 100 * frame ELSE (100 * frame) \div total]

\* framesProcessed % 3 === 0 (line 543)
ProgressDue(framesProcessed) == framesProcessed % ProgressEvery = 0

\* lines 519-567 from the head of the wait loop with waitCount = w, the export
\* frame constructed: wait one more poll, or drop/encode the frame and count
\* it.  encodeThrows: encoder.encode throws, after line 531 has run.
QueueGate(s, c, w, encodeThrows) ==
    IF QueueFull(encodeQueue) /\ ~cancelled /\ w < MaxWaitPolls
    THEN /\ cl' = [cl EXCEPT ![s] = [c EXCEPT !.cb = "waiting", !.waitCount = w]]
         /\ UNCHANGED <<encodeQueue, inFlight, submitted, keyFrames, lastProgress>>
    ELSE LET accept == w < MaxWaitPolls /\ EncoderConfigured
         IN /\ encodeQueue' = IF accept THEN encodeQueue + 1 ELSE encodeQueue
            /\ IF accept /\ ~encodeThrows
               THEN /\ inFlight' = Append(inFlight, c.globalFrameIndex)
                    /\ submitted' = Append(submitted, c.globalFrameIndex)
                    /\ keyFrames' = Append(keyFrames, IsKeyFrame(c.globalFrameIndex))
               ELSE UNCHANGED <<inFlight, submitted, keyFrames>>
            /\ cl' = [cl EXCEPT ![s] =
                        IF accept /\ encodeThrows THEN CaptureError(c)
                        ELSE FrameCounted(c)]
            /\ lastProgress' =
                  IF (accept /\ encodeThrows) \/ ~ProgressDue(c.framesProcessed + 1)
                  THEN lastProgress
                  ELSE ExportProgress(c.globalFrameIndex + 1, totalFrames)

\* renderFrame settles: lines 503-567 up to the first wait poll.  A rejection
\* throws at line 503 with the source frame open; with this.renderer null
\* line 506 throws after the source frame was closed; otherwise the source
\* frame is closed and the export frame constructed.
RenderSettled(s, ok, encodeThrows) ==
    /\ cl[s].cb = "rendering"
    /\ (~ok \/ encodeThrows) => cl[s].frameErrors < MaxFrameErrors
    /\ IF ~ok
       THEN /\ cl' = [cl EXCEPT ![s] = CaptureError(cl[s])]
            /\ UNCHANGED <<encodeQueue, inFlight, submitted, keyFrames, lastProgress>>
       ELSE IF renderer # "live"
       THEN /\ cl' = [cl EXCEPT ![s] =
                         CaptureError([cl[s] EXCEPT !.openFrames = cl[s].openFrames - 1])]
            /\ UNCHANGED <<encodeQueue, inFlight, submitted, keyFrames, lastProgress>>
       ELSE QueueGate(s, cl[s], 0, encodeThrows)
    /\ UNCHANGED <<uiVars, cfgVars, planVars, ctlVars, cancelled, encoderRef, decoder, renderer,
                   muxerRef, encoderState, flushPending, chunkCount, videoDescription,
                   videoColorSpace, descriptionLocal, muxVars, finalizeInvoked, vidVars,
                   cancelCalled, cancelAt, emitted, descriptionCaptures,
                   firstChunkConfig>>

\* the 1 ms timer of the wait loop fires (lines 521-524)
WaitTick(s, encodeThrows) ==
    /\ cl[s].cb = "waiting"
    /\ encodeThrows => cl[s].frameErrors < MaxFrameErrors
    /\ QueueGate(s, cl[s], cl[s].waitCount + 1, encodeThrows)
    /\ UNCHANGED <<uiVars, cfgVars, planVars, ctlVars, cancelled, encoderRef, decoder, renderer,
                   muxerRef, encoderState, flushPending, chunkCount, videoDescription,
                   videoColorSpace, descriptionLocal, muxVars, finalizeInvoked, vidVars,
                   cancelCalled, cancelAt, emitted, descriptionCaptures,
                   firstChunkConfig>>

(***************************************************************************)
(* The interval timers of segment s                                        *)
(***************************************************************************)
\* mutant of InactivityExpired: the watchdog never gives up
InactivityNeverExpires(timeSinceActivity) == FALSE

\* timeSinceActivity > 1000 (line 443)
InactivityExpired(timeSinceActivity) == timeSinceActivity > InactivityMs

\* the 300 ms inactivity watchdog (lines 441-447); idleMs is the time since
\* lastActivityTime as the timer sees it
TimeoutTick(s) ==
    /\ cl[s].timeoutCheckId
    /\ LET timeSinceActivity == Min(cl[s].idleMs + TimeoutPollMs,
                                    InactivityMs + TimeoutPollMs)
           c == [cl[s] EXCEPT !.idleMs = timeSinceActivity]
       IN IF InactivityExpired(timeSinceActivity)
          THEN Finish(s, c)
          ELSE /\ cl' = [cl EXCEPT ![s] = c]
               /\ UNCHANGED <<ctlVars, resVars, finalizeInvoked, videoTime, playing,
                              playbackRate>>
    /\ FinishFrame
    /\ UNCHANGED <<newFrame, endedPending>>

\* the 200 ms progress watcher (lines 450-468)
ProgressTick(s) ==
    /\ cl[s].progressCheckId
    /\ LET currentTimeMs == videoTime
           stuck == Abs(currentTimeMs - cl[s].lastProgressTime) < StuckEpsilonMs
           count == IF stuck THEN cl[s].stuckCount + 1 ELSE 0
           c == [cl[s] EXCEPT !.stuckCount = count, !.lastProgressTime = currentTimeMs]
       IN IF \/ stuck /\ count >= StuckLimit
             \/ currentTimeMs >= segments[s].sourceEndMs - EndToleranceMs
          THEN Finish(s, c)
          ELSE /\ cl' = [cl EXCEPT ![s] = c]
               /\ UNCHANGED <<ctlVars, resVars, finalizeInvoked, videoTime, playing,
                              playbackRate>>
    /\ FinishFrame
    /\ UNCHANGED <<newFrame, endedPending>>

(***************************************************************************)
(* Zoom region resolver (videoPlayback/zoomRegionUtils.ts)                 *)
(***************************************************************************)
\* the regions the editor holds: whole milliseconds, startMs <= endMs
ZoomRegionsOver(lo, hi) ==
    { r \in [startMs : lo..hi, endMs : lo..hi] : r.startMs <= r.endMs }

\* the times the resolver is asked about: from before every lead-in to after
\* every lead-out
ZoomTimes == (0 - TRANSITION_WINDOW_MS - 1)..(MaxZoomMs + TRANSITION_WINDOW_MS + 1)

\* smoothStep on the interior points k / TRANSITION_WINDOW_MS, 0 < k < window:
\* any monotone table with values in [0, 1]
SmoothStepTables ==
    { f \in [1..(TRANSITION_WINDOW_MS - 1) -> 0..StrengthOne] :
        \A i, j \in 1..(TRANSITION_WINDOW_MS - 1) : i <= j => f[i] <= f[j] }

\* smoothStep(k / TRANSITION_WINDOW_MS): 0 at or below 0, 1 at or above 1
smoothStep(k) ==
    IF k <= 0 THEN 0
    ELSE IF k >= TRANSITION_WINDOW_MS THEN StrengthOne
    ELSE smoothStepTable[k]

\* a strength that takes the larger of the two ramps
computeRegionStrengthMax(region, t) ==
    LET leadInStart == region.startMs - TRANSITION_WINDOW_MS
        leadOutEnd  == region.endMs + TRANSITION_WINDOW_MS
    IN  IF t < leadInStart \/ t > leadOutEnd
        THEN 0
        ELSE LET fadeIn  == smoothStep(t - leadInStart)
                 fadeOut == smoothStep(leadOutEnd - t)
             IN  IF fadeIn >= fadeOut THEN fadeIn ELSE fadeOut

\* computeRegionStrength (lines 5-16)
computeRegionStrength(region, t) ==
    LET leadInStart == region.startMs - TRANSITION_WINDOW_MS
        leadOutEnd  == region.endMs + TRANSITION_WINDOW_MS
    IN  IF t < leadInStart \/ t > leadOutEnd
        THEN 0
        ELSE LET fadeIn  == smoothStep(t - leadInStart)
                 fadeOut == smoothStep(leadOutEnd - t)
             IN  Min(fadeIn, fadeOut)

\* computeZoomInProgress (lines 19-27)
computeZoomInProgress(region, t) ==
    LET leadInStart == region.startMs - TRANSITION_WINDOW_MS
        leadInEnd   == region.startMs
    IN  IF t < leadInStart THEN 0
        ELSE IF t >= leadInEnd THEN StrengthOne
        ELSE smoothStep(t - leadInStart)

\* a loop body that also replaces the best region on an equal strength
BetterOrEqual(strength, bestStrength) == strength >= bestStrength /\ strength > 0

\* the test of the loop body (line 35)
Better(strength, bestStrength) == strength > bestStrength

\* the for loop of findDominantRegion (lines 33-39) from the i-th region on;
\* best is <<bestRegion, bestStrength>>, bestRegion the index of the region
\* object, 0 for null
RECURSIVE DominantLoop(_, _, _, _)
DominantLoop(regions, t, i, best) ==
    IF i > Len(regions)
    THEN best
    ELSE LET strength == computeRegionStrength(regions[i], t)
         IN  DominantLoop(regions, t, i + 1,
                          IF Better(strength, best[2]) THEN <<i, strength>> ELSE best)

\* findDominantRegion (lines 29-45)
findDominantRegion(regions, t) ==
    LET best == DominantLoop(regions, t, 1, <<0, 0>>)
    IN  [region |-> best[1],
         strength |-> best[2],
         zoomInProgress |-> IF best[1] # 0
                            THEN computeZoomInProgress(regions[best[1]], t)
                            ELSE 0]

NoResolution == [region |-> 0, strength |-> 0, zoomInProgress |-> 0]

\* the resolver before its first call, with no regions
ZoomIdle ==
    /\ zoomRegions = <<>>
    /\ smoothStepTable = [k \in 1..(TRANSITION_WINDOW_MS - 1) |-> 0]
    /\ timeMs = 0
    /\ dominant = NoResolution

\* one call of findDominantRegion, for the frame at time t
Resolve(t) ==
    /\ timeMs' = t
    /\ dominant' = findDominantRegion(zoomRegions, t)
    /\ UNCHANGED <<zoomRegions, smoothStepTable, editor, recorder, cfgVars, planVars, ctlVars,
                   cancelled, resVars, muxVars, finalizeInvoked, vidVars, cl, histVars>>

(***************************************************************************)
(* Region collections of the editor (VideoEditor.tsx)                      *)
(***************************************************************************)
NoId == <<"null", 0>>

\* `zoom-${n}`, `annotation-${n}`, and the n-th value uuidv4() returned
RegionId(prefix, n) == <<prefix, n>>

\* the timeline spans a handler is called with, already rounded
Span(start, end) == [start |-> start, end |-> end]
EditorSpans == { Span(s, s + 1) : s \in 0..MaxSpanStart }
\* the spans of the n suggestions of one analysis
SuggestedSpans(n) == [i \in 1..n |-> Span(i - 1, i)]

DEFAULT_ZOOM_DEPTH == "default"
ZoomDepths == {DEFAULT_ZOOM_DEPTH, "deeper"}

\* a focus coordinate, in halves of the frame: the centre and the far edge
ZoomFocuses == {1, 2}
\* clampFocusToDepth: the focus is kept where the zoomed viewport stays inside
\* the source at that depth
clampFocusToDepth(focus, depth) ==
    LET margin == IF depth = DEFAULT_ZOOM_DEPTH THEN 1 ELSE 0
    IN  IF focus > 2 - margin THEN 2 - margin ELSE focus

\* prev.map(region => region.id === id ? { ...region, ... } : region), with
\* changed[i] the changed copy of regions[i]
MapById(regions, id, changed) ==
    [i \in 1..Len(regions) |-> IF regions[i].id = id THEN changed[i] ELSE regions[i]]

\* a delete that drops the first region of the list whatever its id
FilterOutFirst(regions, id) == IF regions = <<>> THEN regions ELSE Tail(regions)

\* prev.filter(region => region.id !== id)
FilterOutId(regions, id) == SelectSeq(regions, LAMBDA region : region.id # id)

\* an id taken from a counter that is not advanced
TakeIdStuck(ed, counter, prefix) ==
    [id |-> RegionId(prefix, ed[counter]), ed |-> ed]

\* `${prefix}-${ref.current++}`
TakeId(ed, counter, prefix) ==
    [id |-> RegionId(prefix, ed[counter]), ed |-> [ed EXCEPT ![counter] = @ + 1]]

\* the editor as mounted (lines 53-75)
Mounted ==
    [zoomRegions |-> <<>>,
     selectedZoomId |-> NoId,
     annotationRegions |-> <<>>,
     selectedAnnotationId |-> NoId,
     nextZoomId |-> 1,
     nextAnnotationId |-> 1,
     nextAnnotationZIndex |-> 1,
     uuids |-> 0,
     ops |-> 0]

EditorIdle == editor = Mounted

exporterVars == <<cfgVars, planVars, ctlVars, cancelled, resVars, muxVars, finalizeInvoked,
                  vidVars, cl, histVars>>

\* one more handler has been called
Counted == [editor EXCEPT !.ops = @ + 1]
Called ==
    /\ editor.ops < MaxOps
    /\ UNCHANGED <<zoomVars, recorder, exporterVars>>

ZoomIds == { editor.zoomRegions[i].id : i \in 1..Len(editor.zoomRegions) }
AnnotationIds == { editor.annotationRegions[i].id : i \in 1..Len(editor.annotationRegions) }

\* handleSelectZoom (lines 156-159)
handleSelectZoom(id) ==
    /\ editor' = [Counted EXCEPT !.selectedZoomId = id]
    /\ Called

\* handleSelectAnnotation (lines 169-175)
handleSelectAnnotation(id) ==
    /\ editor' = [Counted EXCEPT !.selectedAnnotationId = id,
                                !.selectedZoomId = IF id # NoId THEN NoId ELSE @]
    /\ Called

\* handleZoomAdded (lines 177-190)
handleZoomAdded(span) ==
    /\ LET t == TakeId(Counted, "nextZoomId", "zoom")
           newRegion == [id |-> t.id,
                         startMs |-> span.start,
                         endMs |-> span.end,
                         depth |-> DEFAULT_ZOOM_DEPTH,
                         focus |-> 1]
       IN  editor' = [t.ed EXCEPT !.zoomRegions = Append(@, newRegion),
                                  !.selectedZoomId = t.id,
                                  !.selectedAnnotationId = NoId]
    /\ Called

\* handleZoomSpanChange (lines 205-218)
handleZoomSpanChange(id, span) ==
    /\ LET change(region) == [region EXCEPT !.startMs = span.start, !.endMs = span.end]
           changed == [i \in 1..Len(editor.zoomRegions) |-> change(editor.zoomRegions[i])]
       IN  editor' = [Counted EXCEPT !.zoomRegions = MapById(@, id, changed)]
    /\ Called

\* handleZoomFocusChange (lines 233-245)
handleZoomFocusChange(id, focus) ==
    /\ LET change(region) ==
               [region EXCEPT !.focus = clampFocusToDepth(focus, region.depth)]
           changed == [i \in 1..Len(editor.zoomRegions) |-> change(editor.zoomRegions[i])]
       IN  editor' = [Counted EXCEPT !.zoomRegions = MapById(@, id, changed)]
    /\ Called

\* handleZoomDepthChange (lines 246-259)
handleZoomDepthChange(depth) ==
    /\ editor.selectedZoomId # NoId
    /\ LET change(region) ==
               [region EXCEPT !.depth = depth,
                              !.focus = clampFocusToDepth(region.focus, depth)]
           changed == [i \in 1..Len(editor.zoomRegions) |-> change(editor.zoomRegions[i])]
       IN  editor' = [Counted EXCEPT
                         !.zoomRegions = MapById(@, editor.selectedZoomId, changed)]
    /\ Called

\* handleZoomDelete (lines 261-266)
handleZoomDelete(id) ==
    /\ editor' = [Counted EXCEPT !.zoomRegions = FilterOutId(@, id),
                                !.selectedZoomId = IF @ = id THEN NoId ELSE @]
    /\ Called

\* handleSmartZoomsGenerated (lines 269-271) with the regions
\* suggestionToZoomRegion made (smartZoomAnalyzer.ts, lines 50-61), each with
\* the next value of uuidv4()
handleSmartZoomsGenerated(spans, depth) ==
    /\ LET regions == [i \in 1..Len(spans) |->
                          [id |-> RegionId("uuid", editor.uuids + i),
                           startMs |-> spans[i].start,
                           endMs |-> spans[i].end,
                           depth |-> depth,
                           focus |-> 1]]
       IN  editor' = [Counted EXCEPT !.zoomRegions = @ \o regions,
                                    !.uuids = @ + Len(spans)]
    /\ Called

\* handleAnnotationAdded (lines 280-298)
handleAnnotationAdded(span) ==
    /\ LET t == TakeId(Counted, "nextAnnotationId", "annotation")
           newRegion == [id |-> t.id,
                         startMs |-> span.start,
                         endMs |-> span.end,
                         zIndex |-> editor.nextAnnotationZIndex]
       IN  editor' = [t.ed EXCEPT !.annotationRegions = Append(@, newRegion),
                                  !.nextAnnotationZIndex = @ + 1,
                                  !.selectedAnnotationId = t.id,
                                  !.selectedZoomId = NoId]
    /\ Called

\* handleAnnotationSpanChange (lines 300-312)
handleAnnotationSpanChange(id, span) ==
    /\ LET change(region) == [region EXCEPT !.startMs = span.start, !.endMs = span.end]
           changed == [i \in 1..Len(editor.annotationRegions) |->
                          change(editor.annotationRegions[i])]
       IN  editor' = [Counted EXCEPT !.annotationRegions = MapById(@, id, changed)]
    /\ Called

\* handleAnnotationDelete (lines 314-319)
handleAnnotationDelete(id) ==
    /\ editor' = [Counted EXCEPT !.annotationRegions = FilterOutId(@, id),
                                !.selectedAnnotationId = IF @ = id THEN NoId ELSE @]
    /\ Called

(***************************************************************************)
(* Screen recorder hook (hooks/useScreenRecorder.ts)                       *)
(***************************************************************************)
NoDuration == 0 - 1

\* the hook as mounted (lines 16-23), the clock at 0
RecorderMounted ==
    [state |-> "none",          \* mediaRecorder.current?.state, "none" for null
     startTime |-> 0,           \* startTime.current
     pausedTime |-> 0,          \* pausedTime.current
     pauseStartTime |-> 0,      \* pauseStartTime.current
     chunks |-> 0,              \* chunks.current.length
     stopQueued |-> FALSE,      \* the 'stop' event of the recorder is owed
     now |-> 0,                 \* Date.now()
     duration |-> NoDuration,   \* the duration fixWebmDuration was called with
     \* history
     startedAt |-> 0,           \* the clock when recording started
     stoppedAt |-> 0,           \* the clock when the recorder's 'stop' was handled
     timePaused |-> 0]          \* the time the recorder has spent paused

RecorderIdle == recorder = RecorderMounted

RecorderStep == UNCHANGED <<zoomVars, editor, exporterVars>>

\* the clock advances by a millisecond
ClockTick ==
    /\ recorder.now < MaxClock
    /\ recorder' = [recorder EXCEPT !.now = @ + 1]
    /\ RecorderStep

\* startRecording from the construction of the recorder on (lines 356-401)
startRecording ==
    /\ recorder.state \in {"none", "inactive"}
    /\ ~recorder.stopQueued
    /\ recorder.duration = NoDuration
    /\ recorder' = [recorder EXCEPT !.chunks = 0,
                                    !.state = "recording",
                                    !.startTime = recorder.now,
                                    !.startedAt = recorder.now,
                                    !.timePaused = 0]
    /\ RecorderStep

\* recorder.ondataavailable (lines 362-364), fired every second while recording
OnDataAvailable(size) ==
    /\ recorder.state = "recording"
    /\ recorder' = [recorder EXCEPT !.chunks = IF size > 0 /\ @ < MaxChunks THEN @ + 1 ELSE @]
    /\ RecorderStep

\* pausedTime.current = 0 (line 80)
StopResetsPausedTime(pausedTime) == 0

\* togglePause (lines 87-102)
togglePause ==
    /\ recorder.state \in {"recording", "paused"}
    /\ IF recorder.state = "recording"
       THEN recorder' = [recorder EXCEPT !.state = "paused",
                                         !.pauseStartTime = recorder.now]
       ELSE recorder' = [recorder EXCEPT
                            !.state = "recording",
                            !.pausedTime = @ + (recorder.now - recorder.pauseStartTime),
                            !.timePaused = @ + (recorder.now - recorder.pauseStartTime)]
    /\ RecorderStep

\* stopRecording (lines 72-84): MediaRecorder.stop() makes the recorder
\* inactive at once and queues its last 'dataavailable' and its 'stop'
stopRecording ==
    /\ recorder.state \in {"recording", "paused"}
    /\ recorder' = [recorder EXCEPT
                       !.state = "inactive",
                       !.stopQueued = TRUE,
                       !.pausedTime = StopResetsPausedTime(@),
                       !.timePaused = IF recorder.state = "paused"
                                      THEN @ + (recorder.now - recorder.pauseStartTime)
                                      ELSE @]
    /\ RecorderStep

\* the last 'dataavailable' (lines 362-364) and recorder.onstop (lines 365-395)
\* up to the call of fixWebmDuration
OnStop(size) ==
    /\ recorder.stopQueued
    /\ LET chunks == IF size > 0 THEN recorder.chunks + 1 ELSE recorder.chunks
       IN  IF chunks = 0
           THEN recorder' = [recorder EXCEPT !.stopQueued = FALSE, !.chunks = 0]
           ELSE LET totalTime == recorder.now - recorder.startTime
                    duration  == totalTime - recorder.pausedTime
                IN  recorder' = [recorder EXCEPT !.stopQueued = FALSE,
                                                 !.chunks = 0,
                                                 !.pausedTime = 0,
                                                 !.duration = duration,
                                                 !.stoppedAt = recorder.now]
    /\ RecorderStep


(***************************************************************************)
(* Specifications                                                          *)
(***************************************************************************)
\* the editor, the recorder and the resolver at rest
UiIdle == ZoomIdle /\ EditorIdle /\ RecorderIdle

\* the exporter after its constructor (lines 206-222), the video not loaded
Constructed ==
    /\ segments = <<>>
    /\ effectiveDurationMs = 0
    /\ planned = FALSE
    /\ pc = "idle"
    /\ segIdx = 0
    /\ globalFrameIndex = 0
    /\ result = NoResult
    /\ barrierSnapshot = 0
    /\ cancelled = FALSE
    /\ encodeQueue = 0
    /\ encoderRef = FALSE
    /\ decoder = "none"
    /\ renderer = "none"
    /\ muxerRef = FALSE
    /\ encoderState = "none"
    /\ inFlight = <<>>
    /\ flushPending = 0
    /\ chunkCount = 0
    /\ videoDescription = 0
    /\ videoColorSpace = "undefined"
    /\ descriptionLocal = 0
    /\ muxed = <<>>
    /\ muxUnsettled = {}
    /\ finalizeInvoked = FALSE
    /\ videoTime = 0
    /\ playing = FALSE
    /\ playbackRate = 1
    /\ newFrame = FALSE
    /\ endedPending = FALSE
    /\ cl = [s \in SegIds |-> Unstarted]
    /\ submitted = <<>>
    /\ cancelCalled = FALSE
    /\ cancelAt = "none"
    /\ keyFrames = <<>>
    /\ emitted = <<>>
    /\ descriptionCaptures = 0
    /\ firstChunkConfig = NoMetadata
    /\ lastProgress = NoProgress

Init ==
    /\ \E cfg \in ExportConfigs :
          /\ totalDurationMs = cfg.totalDurationMs
          /\ trimRegions = cfg.trimRegions
    /\ Constructed
    /\ UiIdle

Next ==
    \/ Start
    \/ \E ok \in BOOLEAN : LoadVideoSettled(ok)
    \/ \E ok \in BOOLEAN : RendererInitSettled(ok)
    \/ \E supported \in BOOLEAN : ProbeHardware(supported)
    \/ \E supported \in BOOLEAN : ProbeSoftware(supported)
    \/ \E ok \in BOOLEAN, hasVideoElement \in BOOLEAN : MuxerInitSettled(ok, hasVideoElement)
    \/ Seeked
    \/ FlushSettled
    \/ BarrierSettled
    \/ \E ok \in BOOLEAN : FinalizeSettled(ok)
    \/ Cancel
    \/ EncoderError
    \/ \E hasDescription \in BOOLEAN, hasColorSpace \in BOOLEAN :
          EncoderOutput(hasDescription, hasColorSpace)
    \/ \E i \in 1..Len(muxed) : MuxSettled(i)
    \/ VideoAdvance
    \/ \E s \in SegIds : OnEnded(s)
    \/ \E s \in SegIds, ok \in BOOLEAN : PlaySettled(s, ok)
    \/ \E s \in SegIds : FrameCallback(s)
    \/ \E s \in SegIds, ok \in BOOLEAN, encodeThrows \in BOOLEAN :
          RenderSettled(s, ok, encodeThrows)
    \/ \E s \in SegIds, encodeThrows \in BOOLEAN : WaitTick(s, encodeThrows)
    \/ \E s \in SegIds : TimeoutTick(s)
    \/ \E s \in SegIds : ProgressTick(s)

Spec == Init /\ [][Next]_vars

\* the decoder owns the source media handle; destroy() releases it, and a
\* released media element owes no further seeked, frame or ended event
MediaAlive == decoder = "live"

(***************************************************************************)
(* The scheduling the event loop guarantees: a due timer fires, a pending   *)
(* platform promise settles, a pending encoder output is delivered.  The    *)
(* media element makes progress only while the decoder that owns it has not *)
(* been destroyed; cancel() and encoder errors may or may not happen.       *)
(***************************************************************************)
Fairness ==
    /\ WF_vars(Start)
    /\ WF_vars(\E ok \in BOOLEAN : LoadVideoSettled(ok))
    /\ WF_vars(\E ok \in BOOLEAN : RendererInitSettled(ok))
    /\ WF_vars(\E supported \in BOOLEAN : ProbeHardware(supported))
    /\ WF_vars(\E supported \in BOOLEAN : ProbeSoftware(supported))
    /\ WF_vars(\E ok \in BOOLEAN, hasVideoElement \in BOOLEAN :
                  MuxerInitSettled(ok, hasVideoElement))
    /\ WF_vars(FlushSettled)
    /\ WF_vars(BarrierSettled)
    /\ WF_vars(\E ok \in BOOLEAN : FinalizeSettled(ok))
    /\ WF_vars(\E hasDescription \in BOOLEAN, hasColorSpace \in BOOLEAN :
                  EncoderOutput(hasDescription, hasColorSpace))
    /\ WF_vars(\E i \in 1..Len(muxed) : MuxSettled(i))
    /\ WF_vars(\E s \in SegIds, ok \in BOOLEAN, encodeThrows \in BOOLEAN :
                  RenderSettled(s, ok, encodeThrows))
    /\ WF_vars(\E s \in SegIds, encodeThrows \in BOOLEAN : WaitTick(s, encodeThrows))
    /\ WF_vars(\E s \in SegIds : TimeoutTick(s))
    /\ WF_vars(\E s \in SegIds : ProgressTick(s))
    /\ WF_vars(MediaAlive /\ Seeked)
    /\ WF_vars(MediaAlive /\ VideoAdvance)
    /\ WF_vars(MediaAlive /\ (\E s \in SegIds : FrameCallback(s)))
    /\ WF_vars(MediaAlive /\ (\E s \in SegIds : OnEnded(s)))

FairSpec == Init /\ [][Next]_vars /\ Fairness

(***************************************************************************)
(* The same scheduling for a source whose seeks may never complete: the     *)
(* 'seeked' event of seekToTime is not owed.                                *)
(***************************************************************************)
FairnessStalledSeek ==
    /\ WF_vars(Start)
    /\ WF_vars(\E ok \in BOOLEAN : LoadVideoSettled(ok))
    /\ WF_vars(\E ok \in BOOLEAN : RendererInitSettled(ok))
    /\ WF_vars(\E supported \in BOOLEAN : ProbeHardware(supported))
    /\ WF_vars(\E supported \in BOOLEAN : ProbeSoftware(supported))
    /\ WF_vars(\E ok \in BOOLEAN, hasVideoElement \in BOOLEAN :
                  MuxerInitSettled(ok, hasVideoElement))
    /\ WF_vars(FlushSettled)
    /\ WF_vars(BarrierSettled)
    /\ WF_vars(\E ok \in BOOLEAN : FinalizeSettled(ok))
    /\ WF_vars(\E hasDescription \in BOOLEAN, hasColorSpace \in BOOLEAN :
                  EncoderOutput(hasDescription, hasColorSpace))
    /\ WF_vars(\E i \in 1..Len(muxed) : MuxSettled(i))
    /\ WF_vars(\E s \in SegIds, ok \in BOOLEAN, encodeThrows \in BOOLEAN :
                  RenderSettled(s, ok, encodeThrows))
    /\ WF_vars(\E s \in SegIds, encodeThrows \in BOOLEAN : WaitTick(s, encodeThrows))
    /\ WF_vars(\E s \in SegIds : TimeoutTick(s))
    /\ WF_vars(\E s \in SegIds : ProgressTick(s))
    /\ WF_vars(MediaAlive /\ VideoAdvance)
    /\ WF_vars(MediaAlive /\ (\E s \in SegIds : FrameCallback(s)))
    /\ WF_vars(MediaAlive /\ (\E s \in SegIds : OnEnded(s)))

StalledSeekSpec == Init /\ [][Next]_vars /\ FairnessStalledSeek

(***************************************************************************)
(* The scheduling of a source that owes nothing: only the two interval     *)
(* timers of a running segment are sure to fire (window.setInterval, lines *)
(* 441 and 450); no frame callback, ended event or promise is owed.  The   *)
(* export is the one with two segments, the first starting at source time  *)
(* 0 and the second after the trim.                                        *)
(***************************************************************************)
TimerFairness ==
    \A s \in SegIds : WF_vars(TimeoutTick(s)) /\ WF_vars(ProgressTick(s))

InitTwoSegments ==
    /\ totalDurationMs = 240
    /\ trimRegions = <<TrimRegion(80, 160)>>
    /\ Constructed
    /\ UiIdle

TimerFairSpec == InitTwoSegments /\ [][Next]_vars /\ TimerFairness

(***************************************************************************)
(* The pipeline on an export long enough for the keyframe period to pass    *)
(* twice: one segment of four frames.                                       *)
(***************************************************************************)
CadenceConfig == [totalDurationMs |-> 310, trimRegions |-> <<>>]

InitCadence ==
    /\ totalDurationMs = CadenceConfig.totalDurationMs
    /\ trimRegions = CadenceConfig.trimRegions
    /\ Constructed
    /\ UiIdle

SpecCadence == InitCadence /\ [][Next]_vars

(***************************************************************************)
(* The pipeline on an export of two segments whose lengths are no multiple  *)
(* of the frame interval: 60 ms before the trim and 220 ms after it.        *)
(***************************************************************************)
ProgressConfig == [totalDurationMs |-> 300, trimRegions |-> <<TrimRegion(60, 80)>>]

InitProgress ==
    /\ totalDurationMs = ProgressConfig.totalDurationMs
    /\ trimRegions = ProgressConfig.trimRegions
    /\ Constructed
    /\ UiIdle

\* the steps of an export in which nothing fails and nobody cancels: every
\* platform promise fulfils, the hardware encoder is supported, no capture
\* throws
NextProgress ==
    \/ Start
    \/ LoadVideoSettled(TRUE)
    \/ RendererInitSettled(TRUE)
    \/ ProbeHardware(TRUE)
    \/ MuxerInitSettled(TRUE, TRUE)
    \/ Seeked
    \/ FlushSettled
    \/ BarrierSettled
    \/ FinalizeSettled(TRUE)
    \/ \E hasDescription \in BOOLEAN, hasColorSpace \in BOOLEAN :
          EncoderOutput(hasDescription, hasColorSpace)
    \/ \E i \in 1..Len(muxed) : MuxSettled(i)
    \/ VideoAdvance
    \/ \E s \in SegIds : OnEnded(s)
    \/ \E s \in SegIds : PlaySettled(s, TRUE)
    \/ \E s \in SegIds : FrameCallback(s)
    \/ \E s \in SegIds : RenderSettled(s, TRUE, FALSE)
    \/ \E s \in SegIds : WaitTick(s, FALSE)
    \/ \E s \in SegIds : TimeoutTick(s)
    \/ \E s \in SegIds : ProgressTick(s)

SpecProgress == InitProgress /\ [][NextProgress]_vars

(***************************************************************************)
(* Planner specification: the inputs are drawn from bounded sets (trims lie *)
(* on the timeline [0, D], in any order, overlapping or not), the one      *)
(* action runs the planning lines of export().                             *)
(***************************************************************************)
InitPlanner ==
    /\ totalDurationMs \in 1..MaxMs
    /\ trimRegions \in SeqsUpTo(TrimsOver(0, totalDurationMs), MaxTrims)
    /\ Constructed
    /\ UiIdle

Plan ==
    /\ ~planned
    /\ PlanLines
    /\ UNCHANGED <<uiVars, cfgVars, ctlVars, cancelled, resVars, muxVars, finalizeInvoked,
                   vidVars, cl, histVars>>

NextPlanner == Plan

SpecPlanner == InitPlanner /\ [][NextPlanner]_vars

(***************************************************************************)
(* Resolver specification: the regions, the smoothStep table and the times *)
(* are drawn from bounded sets; the one action calls findDominantRegion.   *)
(***************************************************************************)
ExporterIdle ==
    /\ totalDurationMs = 1
    /\ trimRegions = <<>>
    /\ Constructed

InitZoom ==
    /\ zoomRegions \in SeqsUpTo(ZoomRegionsOver(0, MaxZoomMs), MaxZoomRegions)
    /\ smoothStepTable \in SmoothStepTables
    /\ timeMs = 0
    /\ dominant = NoResolution
    /\ EditorIdle
    /\ RecorderIdle
    /\ ExporterIdle

NextZoom == \E t \in ZoomTimes : Resolve(t)

SpecZoom == InitZoom /\ [][NextZoom]_vars

(***************************************************************************)
(* Editor specification: every handler of the two region collections, with *)
(* the ids the timeline can name (those of the regions shown).             *)
(***************************************************************************)
InitEditor ==
    /\ ZoomIdle
    /\ EditorIdle
    /\ RecorderIdle
    /\ ExporterIdle

NextEditor ==
    \/ \E id \in ZoomIds \cup {NoId} : handleSelectZoom(id)
    \/ \E id \in AnnotationIds \cup {NoId} : handleSelectAnnotation(id)
    \/ \E span \in EditorSpans : handleZoomAdded(span)
    \/ \E id \in ZoomIds, span \in EditorSpans : handleZoomSpanChange(id, span)
    \/ \E id \in ZoomIds, focus \in ZoomFocuses : handleZoomFocusChange(id, focus)
    \/ \E depth \in ZoomDepths : handleZoomDepthChange(depth)
    \/ \E id \in ZoomIds : handleZoomDelete(id)
    \/ \E n \in 1..MaxSmartZooms, depth \in ZoomDepths :
          handleSmartZoomsGenerated(SuggestedSpans(n), depth)
    \/ \E span \in EditorSpans : handleAnnotationAdded(span)
    \/ \E id \in AnnotationIds, span \in EditorSpans : handleAnnotationSpanChange(id, span)
    \/ \E id \in AnnotationIds : handleAnnotationDelete(id)

SpecEditor == InitEditor /\ [][NextEditor]_vars

(***************************************************************************)
(* Recorder specification: one recording, with every order of pause,       *)
(* resume, stop and clock ticks.                                           *)
(***************************************************************************)
InitRecorder ==
    /\ ZoomIdle
    /\ EditorIdle
    /\ RecorderIdle
    /\ ExporterIdle

NextRecorder ==
    \/ ClockTick
    \/ startRecording
    \/ \E size \in 0..1 : OnDataAvailable(size)
    \/ togglePause
    \/ stopRecording
    \/ \E size \in 0..1 : OnStop(size)

SpecRecorder == InitRecorder /\ [][NextRecorder]_vars

(***************************************************************************)
(* Claims about the planner                                                *)
(***************************************************************************)
NonOverlapping(trims) ==
    \A i, j \in 1..Len(trims) :
        i # j => (trims[i].endMs <= trims[j].startMs \/ trims[j].endMs <= trims[i].startMs)

Within(trims, totalMs) ==
    \A i \in 1..Len(trims) : 0 <= trims[i].startMs /\ trims[i].endMs <= totalMs

InSomeTrim(t) == \E i \in 1..Len(trimRegions) :
                    trimRegions[i].startMs <= t /\ t < trimRegions[i].endMs

InSomeSegment(t) == \E i \in 1..Len(segments) :
                       segments[i].sourceStartMs <= t /\ t < segments[i].sourceEndMs

\* C1: for pairwise non-overlapping trims within [0, D], in any order, the
\* effective durations of the planned segments sum to D minus the sum of the
\* trim durations; D = 10000 with the trim 2000-4000 gives the two segments
\* 0-2000 -> 0-2000 and 4000-10000 -> 2000-8000.
C1_SumOfEffectiveDurations ==
    /\ (planned /\ NonOverlapping(trimRegions) /\ Within(trimRegions, totalDurationMs))
          => SumEffective(segments) = totalDurationMs - SumTrimDuration(trimRegions)
    /\ planned =>
          computeContinuousSegments(10000, <<TrimRegion(2000, 4000)>>)
             = << [sourceStartMs |-> 0, sourceEndMs |-> 2000,
                   effectiveStartMs |-> 0, effectiveEndMs |-> 2000],
                  [sourceStartMs |-> 4000, sourceEndMs |-> 10000,
                   effectiveStartMs |-> 2000, effectiveEndMs |-> 8000] >>

\* two disjoint trims given out of order, planned into at least two segments
C1_Witness ==
    /\ planned
    /\ Len(trimRegions) = 2
    /\ NonOverlapping(trimRegions) /\ Within(trimRegions, totalDurationMs)
    /\ trimRegions[1].startMs > trimRegions[2].startMs
    /\ Len(segments) >= 2

\* C2: for every trim list the segments cover exactly the part of [0, D)
\* outside the union of the trims: no segment contains a trimmed source time
\* and every untrimmed source time lies in a segment.
C2_SegmentsCoverComplementOfUnion ==
    planned =>
        \A t \in 0..(totalDurationMs - 1) :
            /\ InSomeSegment(t) => ~InSomeTrim(t)
            /\ ~InSomeTrim(t) => InSomeSegment(t)

\* C3: segments come in increasing source order, their effective intervals
\* start at 0, are contiguous, and each is non-empty.
C3_SegmentsOrderedAndContiguous ==
    planned =>
        /\ \A i \in 1..Len(segments) :
              segments[i].effectiveEndMs > segments[i].effectiveStartMs
        /\ Len(segments) > 0 => segments[1].effectiveStartMs = 0
        /\ \A i \in 2..Len(segments) :
              /\ segments[i].sourceStartMs >= segments[i - 1].sourceEndMs
              /\ segments[i].effectiveStartMs = segments[i - 1].effectiveEndMs

\* overlapping trims given out of order, planned into at least two segments
C3_Witness ==
    /\ planned
    /\ Len(segments) >= 2
    /\ ~NonOverlapping(trimRegions)
    /\ \E i \in 2..Len(trimRegions) : trimRegions[i].startMs < trimRegions[i - 1].startMs

\* C4: for every trim list the effective durations of the planned segments
\* sum to the total output duration given by getEffectiveDuration.
C4_SegmentsAgreeWithEffectiveDuration ==
    planned => SumEffective(segments) = effectiveDurationMs

(***************************************************************************)
(* Claims about the export pipeline                                        *)
(***************************************************************************)
\* C5: the in-flight encode count never exceeds MAX_ENCODE_QUEUE, and a frame
\* is submitted to the encoder only when the count is below it at that moment.
C5_EncodeQueueBounded ==
    /\ [](encodeQueue <= MAX_ENCODE_QUEUE)
    /\ [][submitted' # submitted => encodeQueue < MAX_ENCODE_QUEUE]_vars

\* the queue is full and a composited frame is held back in the wait loop
C5_Witness ==
    /\ encodeQueue = MAX_ENCODE_QUEUE
    /\ \E s \in SegIds : cl[s].cb = "waiting"

\* C6: across the whole export the frames are submitted to the encoder with
\* strictly increasing output timestamps (global frame indexes).
C6_TimestampsStrictlyIncreasing ==
    \A i \in 2..Len(submitted) : submitted[i] > submitted[i - 1]

\* C7: when cancel() was called while export() was running, export() does not
\* return success, produces no blob, and finalize() is not invoked after the
\* cancel.
C7_CancelNeverSucceeds ==
    /\ (pc = "returned" /\ cancelCalled) => (~result.success /\ ~result.blob)
    /\ (cancelCalled /\ finalizeInvoked) => cancelAt = "finalizing"

\* C8: an export ended by the user's cancel returns {success: false,
\* cancelled: true}, and only a user cancel yields a result marked cancelled.
C8_CancelledResultIsDistinct ==
    pc = "returned" =>
        /\ (cancelCalled /\ result.error = "Export cancelled")
              => (~result.success /\ result.cancelled)
        /\ result.cancelled => cancelCalled

\* C9: after cancel() during a running export, export() eventually returns.
C9_CancelledExportReturns == cancelCalled ~> (pc = "returned")

\* C10: whenever export() has returned, the encoder is closed, the decoder and
\* the renderer are destroyed, and the exporter holds no reference to encoder,
\* decoder, renderer or muxer.
C10_ReleasedOnReturn ==
    pc = "returned" =>
        /\ encoderState \in {"none", "closed"}
        /\ decoder # "live"
        /\ renderer # "live"
        /\ ~encoderRef
        /\ ~muxerRef

(***************************************************************************)
(* Claims about the frame callback                                         *)
(***************************************************************************)
\* the frame callback of segment s is between its entry and its completion
InProgress(s) == cl[s].cb \in {"rendering", "waiting"}

\* C11: every VideoFrame constructed by a frame callback (the source frame and
\* the export frame) is closed before that callback completes, on every path:
\* encoded, dropped, no encoder, cancelled during the wait, exception.
C11_FramesClosedWhenCallbackCompletes ==
    \A s \in SegIds : ~InProgress(s) => cl[s].openFrames = 0

\* C12: whatever termination signals fire and in whatever order, the extraction
\* promise of a segment resolves at most once, the ended event reaching a
\* segment not yet finished resolves it; at the step that resolves it
\* both interval timers are cleared, the ended listener is removed, the video
\* is paused and its playbackRate is 1; once finished a segment stays finished
\* with its timers cleared, and a later signal (a play() rejected after the
\* finish) changes neither the video nor export().
C12_FirstSignalWins ==
    /\ [](\A s \in SegIds : cl[s].resolveCount <= 1)
    /\ [][\A s \in SegIds :
            /\ (endedPending /\ ~endedPending' /\ cl[s].endedListener) =>
                  cl[s].resolveCount' = 1
            /\ cl[s].resolveCount' # cl[s].resolveCount =>
                  /\ cl[s].isFinished'
                  /\ ~cl[s].timeoutCheckId' /\ ~cl[s].progressCheckId'
                  /\ ~cl[s].endedListener'
                  /\ ~playing' /\ playbackRate' = 1
            /\ cl[s].isFinished =>
                  /\ cl[s].isFinished'
                  /\ ~cl[s].timeoutCheckId' /\ ~cl[s].progressCheckId'
                  /\ ~cl[s].endedListener'
                  /\ cl[s].resolveCount' = cl[s].resolveCount
            /\ (cl[s].isFinished /\ cl[s].playPending /\ ~cl[s].playPending') =>
                  UNCHANGED <<ctlVars, playing, playbackRate, videoTime>>
         ]_vars

\* a segment was finished with the media at its end and the ended event still
\* queued, and play() of that segment settled afterwards or is still pending
C12_Witness ==
    \E s \in SegIds :
        /\ cl[s].resolveCount = 1
        /\ endedPending
        /\ ~playing /\ playbackRate = 1

\* C13: a frame is captured only when the source time elapsed since the
\* previously captured frame is at least the inter-frame interval
\* 1000 / frameRate; decoded frames arriving sooner are skipped.
C13_CaptureOnlyAfterFullInterval ==
    \A s \in SegIds :
        InProgress(s) => cl[s].cbTimeMs - cl[s].lastCapturedTimeMs >= FrameIntervalMs

\* C14: a segment never has more than one frame callback registered or in
\* progress (the next one is requested only when the current one, its awaited
\* render and queue wait included, is over), and a step submits at most one
\* frame, which ends the callback that captured it.
C14_OneCallbackOneFrame ==
    /\ [](\A s \in SegIds :
             cl[s].callbacksRequested + (IF InProgress(s) THEN 1 ELSE 0) <= 1)
    /\ [][/\ Len(submitted') <= Len(submitted) + 1
          /\ submitted' # submitted =>
                \E s \in SegIds : InProgress(s) /\ ~InProgress(s)'
         ]_vars

\* a callback that already captured a frame is suspended in its render or its
\* queue wait while the video has presented the next frame
C14_Witness ==
    \E s \in SegIds :
        /\ InProgress(s)
        /\ newFrame
        /\ cl[s].framesProcessed >= 1
        /\ cl[s].callbacksRequested = 0

(***************************************************************************)
(* Claims about the encoder output and the muxer                           *)
(***************************************************************************)
\* the frames of the delivered chunks for which addVideoChunk was called
RECURSIVE HandedFrames(_)
HandedFrames(chunks) ==
    IF chunks = <<>> THEN <<>>
    ELSE IF Head(chunks).handed
         THEN <<Head(chunks).frame>> \o HandedFrames(Tail(chunks))
         ELSE HandedFrames(Tail(chunks))

\* C15: the chunks are handed to the muxer in exactly the order in which the
\* output callback delivered them, whatever mux operations are still pending.
C15_MuxedInEmissionOrder == muxed = HandedFrames(emitted)

\* two different chunks were handed over, the second while the mux operation
\* of the first was still pending
C15_Witness ==
    /\ Len(muxed) >= 2
    /\ muxed[1] # muxed[2]
    /\ 1 \in muxUnsettled

\* C16: the decoder configuration is captured at most once in an export, and
\* the first chunk handed to the muxer comes with a track configuration that
\* holds the captured description and a colour space.
C16_ConfigurationWithFirstChunk ==
    /\ descriptionCaptures <= 1
    /\ muxed # <<>> =>
          /\ firstChunkConfig.description # 0
          /\ firstChunkConfig.description = descriptionLocal
          /\ firstChunkConfig.colorSpace \in {"platform", "bt709"}

\* a later output was delivered after the capture, and the first chunk went
\* out with the default colour space because the platform gave none
C16_Witness ==
    /\ descriptionCaptures = 1
    /\ Len(emitted) >= 2
    /\ firstChunkConfig.colorSpace = "bt709"

\* C17: when export() has not been cancelled, muxer.finalize() is invoked only
\* after flush() completed and with every mux operation started so far
\* settled, and no chunk is handed to the muxer once finalize() was invoked.
C17_FinalizeAfterAllChunks ==
    [][/\ (finalizeInvoked' /\ ~finalizeInvoked) =>
             /\ pc \in {"flushing", "muxBarrier"}
             /\ muxUnsettled = {}
       /\ (finalizeInvoked /\ ~cancelled) => muxed' = muxed
      ]_vars

(***************************************************************************)
(* Claims about errors                                                     *)
(***************************************************************************)
\* C18: when compositing or encoding a frame throws, the frame callback
\* catches it: the segment frame count and the frame index are not advanced,
\* the next decoded-frame notification is requested unless the segment has
\* finished, and export() is not made to fail or to return.
C18_CaptureErrorSkipsOneFrame ==
    [][\A s \in SegIds :
          cl[s].frameErrors' > cl[s].frameErrors =>
              /\ cl[s].framesProcessed' = cl[s].framesProcessed
              /\ cl[s].globalFrameIndex' = cl[s].globalFrameIndex
              /\ cl[s].lastCapturedTimeMs' = cl[s].lastCapturedTimeMs
              /\ ~InProgress(s)'
              /\ ~cl[s].isFinished => (cl[s].cb' = "requested"
                                       /\ cl[s].callbacksRequested' = 1)
              /\ UNCHANGED <<ctlVars, cancelled>>
      ]_vars

\* an export in which a frame capture threw has returned success, with a frame
\* captured by the same segment after the error
C18_Witness ==
    /\ pc = "returned"
    /\ result.success
    /\ \E s \in SegIds : cl[s].frameErrors >= 1 /\ cl[s].framesProcessed >= 1

\* C19: a source that cannot be loaded makes export() return success: false
\* with the error and no blob, and a segment seek that does not complete is
\* timed out, so that export() does not stay in the seek for ever (exports
\* cancelled meanwhile left aside).
C19_LoadOrSeekFailureAborts ==
    /\ [](pc = "returned" /\ result.error = "load failed"
            => ~result.success /\ ~result.blob)
    /\ (pc = "seeking" /\ ~cancelled) ~> (pc # "seeking" \/ cancelled)

\* C20: the first frame submitted to the encoder is a keyframe, and every
\* submitted frame has a keyframe among the KeyFrameInterval frames submitted
\* up to it, whatever frames were dropped or skipped.
C20_KeyFrameCadence ==
    /\ keyFrames # <<>> => keyFrames[1]
    /\ \A i \in 1..Len(keyFrames) :
          \E j \in 1..i : keyFrames[j] /\ i - j < KeyFrameInterval

\* currentSourceMs after the loop of computeContinuousSegments has processed
\* the first k sorted trims
CursorAfter(k) ==
    WalkTrims(SubSeq(sortedTrims(trimRegions), 1, k), 0, 0, <<>>).currentSourceMs

\* C25: while computeContinuousSegments walks the sorted trims, the source-time
\* cursor after each trim is at least its value before that trim, also for
\* overlapping, nested and out-of-order trims.
C25_CursorNeverDecreases ==
    planned => \A k \in 1..Len(trimRegions) : CursorAfter(k) >= CursorAfter(k - 1)

\* C23: an export of a source of duration d at frame rate f with no trims
\* that succeeds has submitted exactly ceil(d x f) frames to the encoder.
C23_FrameCountIsCeil ==
    (pc = "returned" /\ result = Success /\ trimRegions = <<>>)
        => Len(submitted) = CeilDiv(totalDurationMs, FrameIntervalMs)

\* C26: at every point of an export, whatever the order of submissions,
\* encoder outputs, encoder errors, cancel() and cleanup(), encodeQueue equals
\* the number of frames accepted by encoder.encode whose output callback has
\* not yet run, and is never negative.  Stated for exports in which no capture
\* threw, so that every counted frame was accepted.
C26_EncodeQueueCountsPending ==
    (\A s \in SegIds : cl[s].frameErrors = 0) =>
        /\ encodeQueue = Len(submitted) - Len(emitted)
        /\ encodeQueue >= 0

\* C27: the number a segment's extraction resolves with is the number of frames
\* captured for it: once the segment's promise has resolved, the segment's
\* frame count no longer changes and its callback submits nothing to the
\* encoder, also when the termination signal fired while the callback was
\* suspended in renderFrame or in the queue wait.
C27_NothingCapturedAfterResolve ==
    [][\A s \in SegIds :
          cl[s].isFinished =>
              /\ cl[s].framesProcessed' = cl[s].framesProcessed
              /\ (InProgress(s) /\ ~InProgress(s)') => submitted' = submitted
      ]_vars

\* C28: every segment extraction that was started eventually resolves when
\* only the interval timers are sure to fire; a running segment never stays
\* unresolved with three consecutive polls without source-time progress
\* counted, nor with more than InactivityMs without a decoded frame seen by
\* the watchdog.
C28_TimersResolveEverySegment ==
    /\ \A s \in SegIds : cl[s].started ~> cl[s].isFinished
    /\ [](\A s \in SegIds :
             (cl[s].started /\ ~cl[s].isFinished) =>
                 /\ cl[s].stuckCount < StuckLimit
                 /\ cl[s].idleMs <= InactivityMs)

\* the last segment was resolved although play() has not settled, nobody
\* cancelled, the source time is short of the segment's end and the media has
\* not ended: only the stall detector or the inactivity watchdog can have
\* resolved it
C28_Witness ==
    /\ segments # <<>>
    /\ LET s == Len(segments)
       IN /\ cl[s].isFinished
          /\ cl[s].playPending
          /\ ~cancelled
          /\ videoTime < segments[s].sourceEndMs - EndToleranceMs
          /\ videoTime < totalDurationMs
          /\ ~endedPending

\* C30: every progress report delivered during an export has
\* 0 <= currentFrame <= totalFrames and percentage <= 100, where totalFrames
\* is ceil(effectiveDuration x frameRate), for every trim list and every
\* number of segments.
C30_ProgressWithinTotal ==
    lastProgress # NoProgress =>
        /\ lastProgress.totalFrames = CeilDiv(effectiveDurationMs, FrameIntervalMs)
        /\ 0 <= lastProgress.currentFrame
        /\ lastProgress.currentFrame <= lastProgress.totalFrames
        /\ lastProgress.percentage <= 100

(***************************************************************************)
(* Claims about the editor's region collections                            *)
(***************************************************************************)
UniqueIds(regions) ==
    \A i, j \in 1..Len(regions) : regions[i].id = regions[j].id => i = j

RemoveAt(regions, i) == SubSeq(regions, 1, i - 1) \o SubSeq(regions, i + 1, Len(regions))

\* the collection after the step is the collection before it without its one
\* region of that id, the others as they were and in their order
RemovesExactly(before, after, id) ==
    \E i \in 1..Len(before) : before[i].id = id /\ after = RemoveAt(before, i)

\* C24: after any sequence of editor operations no two zoom regions and no two
\* annotation regions share an id, and a delete by id removes exactly the
\* region of that id from its collection, leaving every other region of both
\* collections unchanged in content and order.
C24_UniqueIdsExactDelete ==
    /\ [](UniqueIds(editor.zoomRegions) /\ UniqueIds(editor.annotationRegions))
    /\ [][ /\ \A id \in ZoomIds :
                 handleZoomDelete(id) =>
                     /\ RemovesExactly(editor.zoomRegions, editor'.zoomRegions, id)
                     /\ editor'.annotationRegions = editor.annotationRegions
           /\ \A id \in AnnotationIds :
                 handleAnnotationDelete(id) =>
                     /\ RemovesExactly(editor.annotationRegions,
                                       editor'.annotationRegions, id)
                     /\ editor'.zoomRegions = editor.zoomRegions ]_vars

\* C24 witness: hand-made and generated zoom regions were added and one of
\* them deleted, at least two others remaining.
C24_Witness ==
    /\ editor.nextZoomId > 2
    /\ editor.uuids > 0
    /\ Len(editor.zoomRegions) >= 2
    /\ Len(editor.zoomRegions) < (editor.nextZoomId - 1) + editor.uuids

(***************************************************************************)
(* Claims about the recorder                                               *)
(***************************************************************************)
\* C29: the duration passed to fixWebmDuration is the wall-clock time between
\* start and stop (the stop as recorder.onstop sees it) minus the total time
\* the recorder spent paused, for every sequence of pause, resume and stop,
\* also after completed pauses and when stopped while paused.
C29_DurationExcludesPauses ==
    recorder.duration # NoDuration =>
        recorder.duration = (recorder.stoppedAt - recorder.startedAt) - recorder.timePaused

(***************************************************************************)
(* Claims about the zoom resolver                                          *)
(***************************************************************************)
\* C21: for every region and every time t, computeRegionStrength is 1 on
\* [startMs, endMs], 0 at startMs - W, at endMs + W and outside that window,
\* non-decreasing on [startMs - W, startMs] and non-increasing on
\* [endMs, endMs + W], for every monotone smoothStep with smoothStep(0) = 0
\* and smoothStep(1) = 1.
C21_StrengthShape ==
    \A i \in 1..Len(zoomRegions) : \A t \in ZoomTimes :
        LET r == zoomRegions[i]
            strength(u) == computeRegionStrength(r, u)
        IN  /\ (r.startMs <= t /\ t <= r.endMs) => strength(t) = StrengthOne
            /\ (t <= r.startMs - TRANSITION_WINDOW_MS \/ t >= r.endMs + TRANSITION_WINDOW_MS)
                  => strength(t) = 0
            /\ (r.startMs - TRANSITION_WINDOW_MS <= t /\ t < r.startMs)
                  => strength(t) <= strength(t + 1)
            /\ (r.endMs <= t /\ t < r.endMs + TRANSITION_WINDOW_MS)
                  => strength(t) >= strength(t + 1)

\* C21 witness: the resolver was asked about a time on a ramp of a region and
\* answered with a strength strictly between 0 and 1.
C21_Witness ==
    /\ dominant.region # 0
    /\ 0 < dominant.strength
    /\ dominant.strength < StrengthOne
    /\ \/ timeMs < zoomRegions[dominant.region].startMs
       \/ timeMs > zoomRegions[dominant.region].endMs

\* C22: every call of findDominantRegion returns the first region of the list
\* whose strength at t is the maximum over the list, with that strength, and
\* returns null with strength 0 exactly when every region's strength at t is 0.
C22_DominantIsFirstMaximum ==
    [][ LET d == dominant'
            strength(i) == computeRegionStrength(zoomRegions[i], timeMs')
            n == Len(zoomRegions)
        IN  /\ d.region \in 0..n
            /\ (d.region = 0) <=> (\A i \in 1..n : strength(i) = 0)
            /\ (d.region = 0) => d.strength = 0
            /\ (d.region # 0) =>
                  /\ d.strength = strength(d.region)
                  /\ \A i \in 1..n : strength(i) <= d.strength
                  /\ \A i \in 1..(d.region - 1) : strength(i) < d.strength ]_vars

\* C22 witness: two regions share the maximum strength at the time asked about
\* and the first of them was returned.
C22_Witness ==
    /\ Len(zoomRegions) = 2
    /\ dominant.region = 1
    /\ dominant.strength > 0
    /\ computeRegionStrength(zoomRegions[2], timeMs) = dominant.strength
    /\ zoomRegions[1] # zoomRegions[2]

=============================================================================
